---- MODULE Spec2Model ----
(***************************************************************************)
(* The MCP request dispatcher of poke-mcp-server-template-cloudflare.      *)
(*                                                                         *)
(* Two Cloudflare Workers of the repository are modelled, each a           *)
(* `export default { fetch }` handler:                                     *)
(*   "casey"  : src/src/index.ts lines 1-557 (getwiki, getblog, getgithub, *)
(*              getmastodon)                                               *)
(*   "sample" : src/unnamed/part_001 (greet, get_server_info, ping)        *)
(* One request is followed from its arrival to its response: the transport *)
(* checks, the read of the body, the routing on `method`, the argument     *)
(* validators, the tool handler with its outbound fetches, the envelope.   *)
(***************************************************************************)
EXTENDS Integers, Sequences, FiniteSets, TLC

VARIABLES
  worker,     \* which worker module is deployed: "casey" or "sample"
  pc,         \* "idle" | "transport" | "dispatch" | "tool" | "done"
  request,    \* the HTTP request being handled
  bodyUsed,   \* request.bodyUsed: the body stream has been read
  dispatched, \* the method branch of the dispatcher that was taken, or "none"
  handlerRun, \* the tool whose handler body was entered, or "none"
  call,       \* the running tool handler's arguments
  pending,    \* outbound fetches in flight
  issued,     \* outbound fetches issued so far, in order
  fetchLog,   \* outbound fetches that settled and were observed, in order
  registry,   \* the module-level TOOLS array, as tools/list reads it
  html,       \* the argument of a call of extractText
  rendered,   \* what that call returned, once it has
  again,      \* what extractText returned for `rendered`, once it has
  response    \* the HTTP response, once produced

vars == <<worker, pc, request, bodyUsed, dispatched, handlerRun, call, pending,
          issued, fetchLog, registry, html, rendered, again, response>>

-----------------------------------------------------------------------------
(* JavaScript / JSON values.  Every value is a record of the same shape so *)
(* that a number and a string can be compared: t is the typeof-like tag.   *)

Undefined == [t |-> "undefined", n |-> 0, s |-> ""]
Null == [t |-> "null", n |-> 0, s |-> ""]
Str(x) == [t |-> "string", n |-> 0, s |-> x]
Num(x) == [t |-> "number", n |-> x, s |-> ""]
Bool(b) == [t |-> "boolean", n |-> IF b THEN 1 ELSE 0, s |-> ""]

\* JavaScript truthiness (ToBoolean) of a value.
Truthy(v) ==
  CASE v.t = "string" -> v.s # ""
    [] v.t = "number" -> v.n # 0
    [] v.t = "boolean" -> v.n = 1
    [] OTHER -> FALSE

(* Texts built by template literals are sequences of fragments whose       *)
(* concatenation is the string; T.t is "string" or "undefined".            *)
Text(frags) == [t |-> "string", frags |-> frags]
NoText == [t |-> "undefined", frags |-> <<>>]
TextTruthy(x) == x.t = "string" /\ \E i \in 1..Len(x.frags) : x.frags[i] # ""
Contains(x, frag) == x.t = "string" /\ \E i \in 1..Len(x.frags) : x.frags[i] = frag

-----------------------------------------------------------------------------
(* Bounds of the model.                                                    *)

\* the largest number of members of a tools/call `arguments` object
MaxArgKeys == 1

-----------------------------------------------------------------------------
(* The requests the environment can send.                                  *)

Workers == {"casey", "sample"}

HttpMethods == {"OPTIONS", "GET", "POST"}
Pathnames == {"/mcp", "/", "/other"}
\* request.headers.get("Content-Type"): null when the header is absent
ContentTypes == {Null, Str("application/json; charset=utf-8"), Str("text/plain")}

\* contentType.includes("application/json") on the header values of the model
IncludesJson(ct) ==
  ct.t = "string" /\ ct.s \in {"application/json", "application/json; charset=utf-8"}

Ids == {Undefined, Num(2), Str("2"), Null}
MethodValues ==
  {Str("tools/list"), Str("tools/call"), Str("initialize"),
   Str("notifications/initialized"), Str("resources/list"), Str("Tools/List"),
   Str(" tools/call"), Undefined}
ToolNames ==
  {Undefined, Str(""), Str("getwiki"), Str("getblog"), Str("getgithub"),
   Str("getmastodon"), Str("greet"), Str("get_server_info"), Str("ping"),
   Str("nonexistent")}

ArgKeys == {"path", "slug", "repo", "limit", "name"}
ArgValues == {Str("about"), Str(""), Num(5)}
\* `arguments`: kind is the JSON type; an object carries its members in has/val
NoMembers == [k \in ArgKeys |-> Undefined]
ArgObject(keys, f) ==
  [kind |-> "object", has |-> keys,
   val |-> [k \in ArgKeys |-> IF k \in keys THEN f[k] ELSE Undefined]]
\* `limit` also takes numbers at and beyond the ends of the range 1..40
LimitValues == {Num(0), Num(-3), Num(1), Num(40), Num(41)}
ArgValuesOf(k) == IF k = "limit" THEN ArgValues \cup LimitValues ELSE ArgValues
ArgObjects ==
  UNION {{ArgObject(keys, f) :
            f \in {g \in [keys -> ArgValues \cup LimitValues] :
                     \A k \in keys : g[k] \in ArgValuesOf(k)}} :
         keys \in {K \in SUBSET ArgKeys : Cardinality(K) <= MaxArgKeys}}
NonObjectArgs ==
  {[kind |-> k, has |-> {}, val |-> NoMembers] : k \in {"undefined", "null", "string"}}
Arguments == ArgObjects \cup NonObjectArgs
NoArguments == [kind |-> "undefined", has |-> {}, val |-> NoMembers]

\* `params`: kind is the JSON type; an object carries name and arguments
ParamsObjects ==
  {[kind |-> "object", name |-> nm, arguments |-> a] : nm \in ToolNames, a \in Arguments}
NonObjectParams ==
  {[kind |-> k, name |-> Undefined, arguments |-> NoArguments] :
     k \in {"undefined", "null", "string"}}
NoParams == [kind |-> "undefined", name |-> Undefined, arguments |-> NoArguments]

\* The body: text that is not JSON, a JSON value that is no object, or an object.
NonEnvelopeBodies ==
  {[kind |-> k, method |-> Undefined, id |-> Undefined, params |-> NoParams] :
     k \in {"badjson", "null", "string", "array"}}
Envelope(m, i, p) == [kind |-> "object", method |-> m, id |-> i, params |-> p]
EnvelopeBodies ==
  {Envelope(Str("tools/call"), i, p) : i \in Ids, p \in ParamsObjects \cup NonObjectParams}
  \cup {Envelope(m, i, p) : m \in MethodValues, i \in Ids, p \in NonObjectParams}
Bodies == NonEnvelopeBodies \cup EnvelopeBodies

Requests ==
  {[httpMethod |-> hm, pathname |-> pn, contentType |-> ct, body |-> b] :
     hm \in HttpMethods, pn \in Pathnames, ct \in ContentTypes, b \in Bodies}

NoRequest ==
  [httpMethod |-> "none", pathname |-> "none", contentType |-> Null,
   body |-> [kind |-> "badjson", method |-> Undefined, id |-> Undefined,
             params |-> NoParams]]

-----------------------------------------------------------------------------
(* The tool registries (const TOOLS).  A descriptor keeps the tool's name, *)
(* the declared properties with their primitive types, and `required`.     *)

Tool(name, props, required) == [name |-> name, properties |-> props, required |-> required]

TOOLS_casey ==
  << Tool("getwiki", {<<"path", "string">>}, {}),
     Tool("getblog", {<<"slug", "string">>}, {}),
     Tool("getgithub", {<<"repo", "string">>}, {}),
     Tool("getmastodon", {<<"limit", "number">>}, {}) >>

TOOLS_sample ==
  << Tool("greet", {<<"name", "string">>}, {"name"}),
     Tool("get_server_info", {}, {}),
     Tool("ping", {}, {}) >>

TOOLS(w) == IF w = "casey" THEN TOOLS_casey ELSE TOOLS_sample

-----------------------------------------------------------------------------
(* Type guards.                                                            *)

\* typeof body === "object" && body !== null, then method and id
\* the guard without its check of `id`
isMCPRequest_anyId(body) ==
  /\ body.kind \in {"object", "array"}
  /\ body.method.t = "string"

isMCPRequest(body) ==
  /\ body.kind \in {"object", "array"}
  /\ body.method.t = "string"
  /\ body.id.t \in {"undefined", "string", "number"}

isOptionalStringArg(args) ==
  IF args.kind \in {"undefined", "null"} THEN TRUE
  ELSE IF args.kind # "object" THEN FALSE
  ELSE \A key \in {"path", "slug", "repo"} :
         ~(key \in args.has /\ args.val[key].t # "string")

isOptionalNumberArg(args) ==
  IF args.kind \in {"undefined", "null"} THEN TRUE
  ELSE IF args.kind # "object" THEN FALSE
  ELSE ~("limit" \in args.has /\ args.val["limit"].t # "number")

\* isGreetArgs without its typeof check on name
isGreetArgs_anyName(args) ==
  /\ args.kind = "object"
  /\ "name" \in args.has

isGreetArgs(args) ==
  /\ args.kind = "object"
  /\ "name" \in args.has
  /\ args.val["name"].t = "string"

(* The SDK's zod schemas, as the sample worker uses their verdict: a       *)
(* request's params, when present, is an object; a tools/call has a string *)
(* params.name and an `arguments` that is absent or an object.             *)
ListToolsRequestValid(body) == body.params.kind \in {"undefined", "object"}

CallToolRequestValid(body) ==
  /\ body.params.kind = "object"
  /\ body.params.name.t = "string"
  /\ body.params.arguments.kind \in {"undefined", "object"}

-----------------------------------------------------------------------------
(* Responses.                                                              *)

getCorsHeaders ==
  { <<"Access-Control-Allow-Origin", "*">>,
    <<"Access-Control-Allow-Methods", "GET, POST, OPTIONS">>,
    <<"Access-Control-Allow-Headers",
      "Content-Type, Authorization, Accept, Origin, X-Request-ID">>,
    <<"Access-Control-Max-Age", "86400">> }

NoResult == [kind |-> "none", tools |-> <<>>, content |-> <<>>, isError |-> "absent"]
NoErrorObject == [code |-> 0, message |-> NoText]
ErrorObject(code, message) == [code |-> code, message |-> message]

\* an object literal handed to JSON.stringify: the members written, and their values
Data(members, id, result, error) ==
  [members |-> members, id |-> id, result |-> result, error |-> error]
NoData == Data({}, Undefined, NoResult, NoErrorObject)

\* JSON.stringify leaves out a member whose value is undefined
JSONstringify(data) ==
  [data EXCEPT !.members = {m \in data.members : ~(m = "id" /\ data.id.t = "undefined")}]

\* new Response(body, {status, headers}); hasBody is FALSE for a null body
NewResponse(hasBody, body, status, headers) ==
  [hasBody |-> hasBody, body |-> body, status |-> status, headers |-> headers]
NoResponse == NewResponse(FALSE, NoData, 0, {})

\* createJsonResponse with the Content-Type header alone
createJsonResponse_noCors(data, status) ==
  NewResponse(TRUE, JSONstringify(data), status, { <<"Content-Type", "application/json">> })

createJsonResponse(data, status) ==
  NewResponse(TRUE, JSONstringify(data), status,
              getCorsHeaders \cup { <<"Content-Type", "application/json">> })

\* { content: [{ type: "text", text }], isError }: the flag always written
toolResult_alwaysFlag(text, isError) ==
  [kind |-> "tool", tools |-> <<>>,
   content |-> << [type |-> "text", text |-> text] >>,
   isError |-> IF isError THEN "true" ELSE "false"]

\* { content: [{ type: "text", text }], ...(isError && { isError: true }) }
toolResult(text, isError) ==
  [kind |-> "tool", tools |-> <<>>,
   content |-> << [type |-> "text", text |-> text] >>,
   isError |-> IF isError THEN "true" ELSE "absent"]

\* the sample worker's literal { content: [{ type: "text", text }] }
sampleResult(text) ==
  [kind |-> "tool", tools |-> <<>>,
   content |-> << [type |-> "text", text |-> text] >>,
   isError |-> "absent"]

\* the success envelope written without its id member
SuccessEnvelope_withoutId(requestId, result) ==
  createJsonResponse(Data({"jsonrpc", "result"}, Undefined, result, NoErrorObject), 200)

\* { jsonrpc: "2.0", id: requestId, result }
SuccessEnvelope(requestId, result) ==
  createJsonResponse(Data({"jsonrpc", "id", "result"}, requestId, result, NoErrorObject), 200)

-----------------------------------------------------------------------------
(* Outbound fetches.  A fetch settles with a response (status, payload) or *)
(* rejects (AbortSignal.timeout fired, or the network failed).             *)

Settled(status, payload) == [thrown |-> "none", status |-> status, payload |-> payload]
Threw(kind) == [thrown |-> kind, status |-> 0, payload |-> "none"]
NotSettled == [thrown |-> "none", status |-> 0, payload |-> "none"]

\* Response.ok
ok(o) == o.thrown = "none" /\ o.status \in 200..299

Targets ==
  {"wiki:page", "wiki:sitemap", "blog:feed", "blog:posts", "blog:post",
   "gh:profile", "gh:repos", "gh:repo", "gh:readme", "masto:lookup", "masto:statuses"}
\* endpoints read with response.json()
JsonTargets == {"gh:profile", "gh:repos", "gh:repo", "masto:lookup", "masto:statuses"}
\* endpoints whose parsed value the handler dereferences
ObjectTargets == {"gh:profile", "gh:repo", "masto:lookup"}

Rejections == {Threw("timeout"), Threw("network")}
Failures == {Settled(404, "none"), Settled(500, "none")} \cup Rejections
\* payloads of a 200: "good" is the expected document; "empty" a feed without
\* entries; "badjson" a body response.json() cannot parse; "null" the JSON null
OutcomesOf(t) ==
  Failures \cup {Settled(200, "good")}
  \cup (IF t = "blog:feed" THEN {Settled(200, "empty")} ELSE {})
  \cup (IF t \in JsonTargets THEN {Settled(200, "badjson")} ELSE {})
  \cup (IF t \in ObjectTargets THEN {Settled(200, "null")} ELSE {})
  \cup (IF t = "masto:lookup" THEN {Settled(200, "other")} ELSE {})

\* account.id of the document the lookup answered: "good" and "other" are two
\* accounts with different ids
AccountDocuments == {"good", "other"}
accountId(payload) ==
  CASE payload = "good" -> "109302436954721982"
    [] payload = "other" -> "42"
    [] OTHER -> ""

LogTargets(log) == {log[i].target : i \in 1..Len(log)}
Outcome(log, t) ==
  IF t \in LogTargets(log)
  THEN (CHOOSE e \in {log[i] : i \in 1..Len(log)} : e.target = t).outcome
  ELSE NotSettled
HasRejection(log) == \E i \in 1..Len(log) : log[i].outcome.thrown # "none"
\* the rejection a try block catches: the first one that happened
FirstRejection(log) ==
  log[CHOOSE i \in 1..Len(log) :
        /\ log[i].outcome.thrown # "none"
        /\ \A j \in 1..(i - 1) : log[j].outcome.thrown = "none"].outcome

\* error instanceof Error ? error.message : "Unknown error", for what fetch rejects with
\* a timeout reported under a message of the handler's own
errorMessage_requestTimeout(o) ==
  IF o.thrown = "timeout" THEN Text(<<"request timeout">>)
  ELSE IF o.thrown = "network" THEN Text(<<"Network connection lost">>)
  ELSE Text(<<"Unknown error">>)

errorMessage(o) ==
  IF o.thrown = "timeout" THEN Text(<<"The operation was aborted due to timeout">>)
  ELSE IF o.thrown = "network" THEN Text(<<"Network connection lost">>)
  ELSE Text(<<"Unknown error">>)
\* the messages of the runtime's own exceptions
SyntaxErrorMessage == Text(<<"Unexpected token in JSON">>)
TypeErrorMessage == Text(<<"Cannot read properties of null">>)

\* what extractText returns for a fetched page (the renderer is a pure function
\* of the payload; its result is a non-empty string for the pages of the model)
RenderedPage == Text(<<"<page text>">>)

Fetched(error, value) == [error |-> error, value |-> value]

-----------------------------------------------------------------------------
(* extractText.  A string is a sequence of atoms, each a run of characters *)
(* that the regular expressions of extractText never split: the start of a *)
(* tag up to its name ("<script"), a complete tag ("</p>"), the character  *)
(* ">", "&", the rest of an entity ("amp;"), a white-space character, a    *)
(* word.  The string is the concatenation of its atoms.                    *)

\* the longest html handed to extractText, in atoms
MaxHtmlLen == 6

ScriptOpeners == {"<script", "<SCRIPT"}
ScriptClosers == {"</script", "</SCRIPT"}
StyleOpeners == {"<style"}
StyleClosers == {"</style"}
\* atoms that are a whole tag
CompleteTags == {"<br>", "<br/>", "</p>", "</div>", "</h1>", "<li>", "</li>", "<b>"}
\* atoms that begin with "<" and hold no ">"
TagStarts ==
  ScriptOpeners \cup ScriptClosers \cup StyleOpeners \cup StyleClosers \cup {"<"}
\* atoms whose last character is ">", and that hold no other ">"
EndsGt == CompleteTags \cup {">"}

\* the atoms of the html documents of the model
HtmlAtoms == {"<script", "</script", "</SCRIPT", ">", " ", "x"}
Htmls == UNION {[1..n -> HtmlAtoms] : n \in 0..MaxHtmlLen}

\* the longest plain text handed to extractText, in atoms
MaxTextLen == 5
\* the atoms of the texts of the model: words, white space, a lone ">" and the
\* entity strings "&" + "amp;", "&" + "lt;", "&" + "gt;"
TextAtoms == {"x", " ", "\n", ">", "&", "amp;", "lt;", "gt;"}
Texts == UNION {[1..n -> TextAtoms] : n \in 0..MaxTextLen}

\* the first index from i on whose atom is in `atoms`, or 0
FirstIn(s, i, atoms) ==
  LET found == {j \in i..Len(s) : s[j] \in atoms}
  IN IF found = {} THEN 0 ELSE CHOOSE j \in found : \A k \in found : j <= k

\* the first index from i on where `closer>` begins, or 0
FirstCloser(s, i, closers) ==
  LET found == {j \in i..(Len(s) - 1) : s[j] \in closers /\ s[j + 1] = ">"}
  IN IF found = {} THEN 0 ELSE CHOOSE j \in found : \A k \in found : j <= k

\* replace(/<name[^>]*>[\s\S]*?<\/name>/gi, ''): leftmost matches, the shortest
\* body each, the scan going on behind a match
RECURSIVE removeBlocks(_, _, _, _)
removeBlocks(s, i, openers, closers) ==
  IF i > Len(s) THEN <<>>
  ELSE IF s[i] \in openers
  THEN LET j == FirstIn(s, i + 1, EndsGt)
           k == IF j = 0 THEN 0 ELSE FirstCloser(s, j + 1, closers)
       IN IF k = 0 THEN <<s[i]>> \o removeBlocks(s, i + 1, openers, closers)
          ELSE removeBlocks(s, k + 2, openers, closers)
  ELSE <<s[i]>> \o removeBlocks(s, i + 1, openers, closers)

\* replace(/<tag>/gi, to) for tags that are one atom
RECURSIVE replaceTags(_, _, _)
replaceTags(s, tags, to) ==
  IF s = <<>> THEN <<>>
  ELSE (IF Head(s) \in tags THEN to ELSE <<Head(s)>>) \o replaceTags(Tail(s), tags, to)

\* replace(/<[^>]+>/g, ''): from a "<" to the next ">", with something between
RECURSIVE stripTags(_, _)
stripTags(s, i) ==
  IF i > Len(s) THEN <<>>
  ELSE IF s[i] \in CompleteTags THEN stripTags(s, i + 1)
  ELSE IF s[i] \in TagStarts
  THEN LET j == FirstIn(s, i + 1, EndsGt)
       IN IF j = 0 \/ (s[i] = "<" /\ j = i + 1 /\ s[j] = ">")
          THEN <<s[i]>> \o stripTags(s, i + 1)
          ELSE stripTags(s, j + 1)
  ELSE <<s[i]>> \o stripTags(s, i + 1)

\* replace(/&name;/g, to): "&" followed by the atom "name;"
RECURSIVE decodeEntity(_, _, _)
decodeEntity(s, name, to) ==
  IF s = <<>> THEN <<>>
  ELSE IF Len(s) >= 2 /\ s[1] = "&" /\ s[2] = name
  THEN <<to>> \o decodeEntity(SubSeq(s, 3, Len(s)), name, to)
  ELSE <<Head(s)>> \o decodeEntity(Tail(s), name, to)

\* the length of the run of atoms of `atoms` that s begins with
RECURSIVE runLength(_, _)
runLength(s, atoms) ==
  IF s = <<>> \/ Head(s) \notin atoms THEN 0 ELSE 1 + runLength(Tail(s), atoms)

\* replace(/\n{3,}/g, '\n\n')
RECURSIVE collapseNewlines(_)
collapseNewlines(s) ==
  IF s = <<>> THEN <<>>
  ELSE LET n == runLength(s, {"\n"})
       IN IF n >= 3 THEN <<"\n", "\n">> \o collapseNewlines(SubSeq(s, n + 1, Len(s)))
          ELSE IF n >= 1 THEN SubSeq(s, 1, n) \o collapseNewlines(SubSeq(s, n + 1, Len(s)))
          ELSE <<Head(s)>> \o collapseNewlines(Tail(s))

\* replace(/[ \t]+/g, ' ')
RECURSIVE collapseSpaces(_)
collapseSpaces(s) ==
  IF s = <<>> THEN <<>>
  ELSE LET n == runLength(s, {" ", "\t"})
       IN IF n >= 1 THEN <<" ">> \o collapseSpaces(SubSeq(s, n + 1, Len(s)))
          ELSE <<Head(s)>> \o collapseSpaces(Tail(s))

\* String.prototype.trim
WhiteSpace == {" ", "\t", "\n"}
RECURSIVE trimStart(_)
trimStart(s) == IF s # <<>> /\ Head(s) \in WhiteSpace THEN trimStart(Tail(s)) ELSE s
RECURSIVE trimEnd(_)
trimEnd(s) ==
  IF s # <<>> /\ s[Len(s)] \in WhiteSpace THEN trimEnd(SubSeq(s, 1, Len(s) - 1)) ELSE s
\* a trim that takes one white-space character off each end
trim_oneEach(s) ==
  LET t == IF s # <<>> /\ Head(s) \in WhiteSpace THEN Tail(s) ELSE s
  IN IF t # <<>> /\ t[Len(t)] \in WhiteSpace THEN SubSeq(t, 1, Len(t) - 1) ELSE t

trim(s) == trimEnd(trimStart(s))

removeScripts(s) == removeBlocks(s, 1, ScriptOpeners, ScriptClosers)
removeStyles(s) == removeBlocks(s, 1, StyleOpeners, StyleClosers)

\* the replace calls of extractText, in their order
extractText(h) ==
  LET t1 == removeScripts(h)
      t2 == removeStyles(t1)
      t3 == replaceTags(t2, {"<br>", "<br/>"}, <<"\n">>)
      t4 == replaceTags(t3, {"</p>"}, <<"\n", "\n">>)
      t5 == replaceTags(t4, {"</div>"}, <<"\n">>)
      t6 == replaceTags(t5, {"</h1>"}, <<"\n", "\n">>)
      t7 == replaceTags(t6, {"<li>"}, <<"(bullet)", " ">>)
      t8 == replaceTags(t7, {"</li>"}, <<"\n">>)
      t9 == stripTags(t8, 1)
      t10 == decodeEntity(t9, "nbsp;", " ")
      t11 == decodeEntity(t10, "amp;", "&")
      t12 == decodeEntity(t11, "lt;", "<")
      t13 == decodeEntity(t12, "gt;", ">")
      t14 == decodeEntity(t13, "quot;", "\"")
      t15 == decodeEntity(t14, "#39;", "'")
      t16 == collapseNewlines(t15)
      t17 == collapseSpaces(t16)
  IN trim(t17)

\* `rendered` before extractText has returned
NotRendered == <<"(not rendered)">>

-----------------------------------------------------------------------------
(* Resource fetchers: each is given the outcomes of the fetches it awaits. *)

\* fetchWikiPage without its `if (!response.ok)` line
fetchWikiPage_ignoresStatus(path, o) ==
  IF o.thrown # "none" THEN Fetched(errorMessage(o), NoText)
  ELSE Fetched(NoText, RenderedPage)

fetchWikiPage(path, o) ==
  IF o.thrown # "none" THEN Fetched(errorMessage(o), NoText)
  ELSE IF ~ok(o) THEN Fetched(Text(<<"Page ", "not found", ": ", path>>), NoText)
  ELSE Fetched(NoText, RenderedPage)

\* getWikiPages without its `if (!response.ok)` line
getWikiPages_ignoresStatus(o) ==
  IF o.thrown # "none" THEN Fetched(errorMessage(o), NoText)
  ELSE Fetched(NoText, Text(<<"<pages>">>))

getWikiPages(o) ==
  IF o.thrown # "none" THEN Fetched(errorMessage(o), NoText)
  ELSE IF ~ok(o) THEN Fetched(Text(<<"Could not fetch wiki sitemap">>), NoText)
  ELSE Fetched(NoText, Text(<<"<pages>">>))

\* the feed first; the posts page when the feed is not ok or has no entries
getBlogPosts(log) ==
  LET feed == Outcome(log, "blog:feed")
      page == Outcome(log, "blog:posts")
  IN IF feed.thrown # "none" THEN Fetched(errorMessage(feed), NoText)
     ELSE IF ok(feed) /\ feed.payload = "good" THEN Fetched(NoText, Text(<<"<posts>">>))
     ELSE IF page.thrown # "none" THEN Fetched(errorMessage(page), NoText)
     ELSE IF ~ok(page) THEN Fetched(Text(<<"Could not fetch blog">>), NoText)
     ELSE Fetched(NoText, Text(<<"<posts>">>))

fetchBlogPost(slug, o) ==
  IF o.thrown # "none" THEN Fetched(errorMessage(o), NoText)
  ELSE IF ~ok(o) THEN Fetched(Text(<<"Post ", "not found", ": ", slug>>), NoText)
  ELSE Fetched(NoText, RenderedPage)

\* Promise.all of the two fetches, then the status and the bodies; value is the
\* parsed profile ("good" or "null")
\* the profile's status looked at before a rejection of the other fetch
getGitHubProfile_statusFirst(log) ==
  LET profileRes == Outcome(log, "gh:profile")
      reposRes == Outcome(log, "gh:repos")
  IN IF "gh:profile" \in LogTargets(log) /\ profileRes.thrown = "none" /\ ~ok(profileRes)
     THEN Fetched(Text(<<"Could not fetch GitHub profile">>), "none")
     ELSE IF HasRejection(log) THEN Fetched(errorMessage(FirstRejection(log)), "none")
     ELSE IF ~ok(profileRes) THEN Fetched(Text(<<"Could not fetch GitHub profile">>), "none")
     ELSE IF profileRes.payload = "badjson" THEN Fetched(SyntaxErrorMessage, "none")
     ELSE IF ok(reposRes) /\ reposRes.payload = "badjson"
          THEN Fetched(SyntaxErrorMessage, "none")
     ELSE Fetched(NoText, profileRes.payload)

getGitHubProfile(log) ==
  LET profileRes == Outcome(log, "gh:profile")
      reposRes == Outcome(log, "gh:repos")
  IN IF HasRejection(log) THEN Fetched(errorMessage(FirstRejection(log)), "none")
     ELSE IF ~ok(profileRes) THEN Fetched(Text(<<"Could not fetch GitHub profile">>), "none")
     ELSE IF profileRes.payload = "badjson" THEN Fetched(SyntaxErrorMessage, "none")
     ELSE IF ok(reposRes) /\ reposRes.payload = "badjson"
          THEN Fetched(SyntaxErrorMessage, "none")
     ELSE Fetched(NoText, profileRes.payload)

getGitHubRepo(name, log) ==
  LET repoRes == Outcome(log, "gh:repo")
  IN IF HasRejection(log) THEN Fetched(errorMessage(FirstRejection(log)), "none")
     ELSE IF ~ok(repoRes)
          THEN Fetched(Text(<<"Repository ", "not found", ": ", name>>), "none")
     ELSE IF repoRes.payload = "badjson" THEN Fetched(SyntaxErrorMessage, "none")
     ELSE Fetched(NoText, repoRes.payload)

\* the lookup, then the statuses of account.id; reading account.id of null throws
\* inside the try block
getMastodonPosts(log) ==
  LET lookupRes == Outcome(log, "masto:lookup")
      statusesRes == Outcome(log, "masto:statuses")
  IN IF lookupRes.thrown # "none" THEN Fetched(errorMessage(lookupRes), "none")
     ELSE IF ~ok(lookupRes) THEN Fetched(Text(<<"Could not find Mastodon account">>), "none")
     ELSE IF lookupRes.payload = "badjson" THEN Fetched(SyntaxErrorMessage, "none")
     ELSE IF lookupRes.payload = "null" THEN Fetched(TypeErrorMessage, "none")
     ELSE IF statusesRes.thrown # "none" THEN Fetched(errorMessage(statusesRes), "none")
     ELSE IF ~ok(statusesRes)
          THEN Fetched(Text(<<"Could not fetch Mastodon posts">>), "none")
     ELSE IF statusesRes.payload = "badjson" THEN Fetched(SyntaxErrorMessage, "none")
     ELSE Fetched(NoText, lookupRes.payload)

-----------------------------------------------------------------------------
(* Tool handlers.  A handler returns a tool result or raises (a TypeError  *)
(* on a parsed value that is null escapes to the worker's catch block).    *)

Returned(result) == [raised |-> FALSE, result |-> result, message |-> NoText]
Raised(message) == [raised |-> TRUE, result |-> NoResult, message |-> message]

Min(a, b) == IF a <= b THEN a ELSE b
Max(a, b) == IF a >= b THEN a ELSE b

\* result.error ? toolResult(result.error, true) : toolResult(result.text || "")
pageResult(result) ==
  IF TextTruthy(result.error) THEN toolResult(result.error, TRUE)
  ELSE toolResult(IF TextTruthy(result.value) THEN result.value ELSE Text(<<"">>), FALSE)

handleGetWiki(args, log) ==
  IF Truthy(args.val["path"])
  THEN Returned(pageResult(fetchWikiPage(args.val["path"].s, Outcome(log, "wiki:page"))))
  ELSE LET result == getWikiPages(Outcome(log, "wiki:sitemap"))
       IN Returned(IF TextTruthy(result.error) THEN toolResult(result.error, TRUE)
                   ELSE toolResult(Text(<<"Wiki pages (", "<count>", "):\n", "<pages>">>),
                                   FALSE))

handleGetBlog(args, log) ==
  IF Truthy(args.val["slug"])
  THEN Returned(pageResult(fetchBlogPost(args.val["slug"].s, Outcome(log, "blog:post"))))
  ELSE LET result == getBlogPosts(log)
       IN Returned(IF TextTruthy(result.error) THEN toolResult(result.error, TRUE)
                   ELSE toolResult(Text(<<"Blog posts (", "<count>", "):\n", "<lines>">>),
                                   FALSE))

handleGetGithub(args, log) ==
  IF Truthy(args.val["repo"])
  THEN LET result == getGitHubRepo(args.val["repo"].s, log)
       IN IF TextTruthy(result.error) THEN Returned(toolResult(result.error, TRUE))
          ELSE IF result.value = "null" THEN Raised(TypeErrorMessage)
          ELSE Returned(toolResult(Text(<<"# ", "<repo>", "\n", "<details>">>), FALSE))
  ELSE LET result == getGitHubProfile(log)
       IN IF TextTruthy(result.error) THEN Returned(toolResult(result.error, TRUE))
          ELSE IF result.value = "null" THEN Raised(TypeErrorMessage)
          ELSE Returned(toolResult(Text(<<"# ", "<profile>", "\n", "<repositories>">>),
                                   FALSE))

\* Math.min(Math.max(args?.limit || 10, 1), 40)
limitOf(args) ==
  Min(Max(IF Truthy(args.val["limit"]) THEN args.val["limit"].n ELSE 10, 1), 40)

handleGetMastodon(args, log) ==
  LET result == getMastodonPosts(log)
  IN IF TextTruthy(result.error) THEN Returned(toolResult(result.error, TRUE))
     ELSE Returned(toolResult(Text(<<"# @", "<username>", " on social.coop\n", "<posts>">>),
                              FALSE))

handle(tool, args, log) ==
  CASE tool = "getwiki" -> handleGetWiki(args, log)
    [] tool = "getblog" -> handleGetBlog(args, log)
    [] tool = "getgithub" -> handleGetGithub(args, log)
    [] tool = "getmastodon" -> handleGetMastodon(args, log)

(* The fetches the handler has called fetch() for, given what it has       *)
(* observed so far; a fetcher's second fetch depends on its first.         *)
\* getwiki fetching the sitemap whatever its arguments
Needs_sitemapAlways(tool, args, log) ==
  CASE tool = "getwiki" -> {"wiki:sitemap"}
    [] tool = "getblog" ->
         IF Truthy(args.val["slug"]) THEN {"blog:post"}
         ELSE LET feed == Outcome(log, "blog:feed")
              IN {"blog:feed"}
                 \cup (IF /\ "blog:feed" \in LogTargets(log)
                          /\ feed.thrown = "none"
                          /\ ~(ok(feed) /\ feed.payload = "good")
                       THEN {"blog:posts"} ELSE {})
    [] tool = "getgithub" ->
         IF Truthy(args.val["repo"]) THEN {"gh:repo", "gh:readme"}
         ELSE {"gh:profile", "gh:repos"}
    [] tool = "getmastodon" ->
         LET lookupRes == Outcome(log, "masto:lookup")
         IN {"masto:lookup"}
            \cup (IF ok(lookupRes) /\ lookupRes.payload \in AccountDocuments
                  THEN {"masto:statuses"} ELSE {})

\* getmastodon calling both fetches at once
Needs_statusesAtOnce(tool, args, log) ==
  CASE tool = "getwiki" ->
         IF Truthy(args.val["path"]) THEN {"wiki:page"} ELSE {"wiki:sitemap"}
    [] tool = "getblog" ->
         IF Truthy(args.val["slug"]) THEN {"blog:post"}
         ELSE LET feed == Outcome(log, "blog:feed")
              IN {"blog:feed"}
                 \cup (IF /\ "blog:feed" \in LogTargets(log)
                          /\ feed.thrown = "none"
                          /\ ~(ok(feed) /\ feed.payload = "good")
                       THEN {"blog:posts"} ELSE {})
    [] tool = "getgithub" ->
         IF Truthy(args.val["repo"]) THEN {"gh:repo", "gh:readme"}
         ELSE {"gh:profile", "gh:repos"}
    [] tool = "getmastodon" -> {"masto:lookup", "masto:statuses"}

Needs(tool, args, log) ==
  CASE tool = "getwiki" ->
         IF Truthy(args.val["path"]) THEN {"wiki:page"} ELSE {"wiki:sitemap"}
    [] tool = "getblog" ->
         IF Truthy(args.val["slug"]) THEN {"blog:post"}
         ELSE LET feed == Outcome(log, "blog:feed")
              IN {"blog:feed"}
                 \cup (IF /\ "blog:feed" \in LogTargets(log)
                          /\ feed.thrown = "none"
                          /\ ~(ok(feed) /\ feed.payload = "good")
                       THEN {"blog:posts"} ELSE {})
    [] tool = "getgithub" ->
         IF Truthy(args.val["repo"]) THEN {"gh:repo", "gh:readme"}
         ELSE {"gh:profile", "gh:repos"}
    [] tool = "getmastodon" ->
         LET lookupRes == Outcome(log, "masto:lookup")
         IN {"masto:lookup"}
            \cup (IF ok(lookupRes) /\ lookupRes.payload \in AccountDocuments
                  THEN {"masto:statuses"} ELSE {})

\* the handler has everything it awaits: a rejection ends its try block at once
Completed(tool, args, log) ==
  HasRejection(log) \/ Needs(tool, args, log) \subseteq LogTargets(log)

\* fetch() calls in the order the code makes them
TargetOrder ==
  << "wiki:page", "wiki:sitemap", "blog:post", "blog:feed", "blog:posts",
     "gh:profile", "gh:repos", "gh:repo", "gh:readme", "masto:lookup", "masto:statuses" >>
selectorOf(args, t) ==
  CASE t = "wiki:page" -> args.val["path"].s
    [] t = "blog:post" -> args.val["slug"].s
    [] t \in {"gh:repo", "gh:readme"} -> args.val["repo"].s
    [] OTHER -> ""
\* a fetch() call: its URL (target, selector, account id, limit) and the number
\* of settled fetches the handler had observed when it made the call
Issue(args, targets, log) ==
  LET f(t) == t \in targets
      order == SelectSeq(TargetOrder, f)
  IN [i \in 1..Len(order) |->
        [target |-> order[i], selector |-> selectorOf(args, order[i]),
         account |-> IF order[i] = "masto:statuses"
                     THEN accountId(Outcome(log, "masto:lookup").payload) ELSE "",
         limit |-> IF order[i] = "masto:statuses" THEN limitOf(args) ELSE 0,
         after |-> Len(log)]]

-----------------------------------------------------------------------------
(* The dispatcher: the try block of fetch, from the parsed body to the     *)
(* first await of a tool handler.  It responds, throws, or invokes a tool. *)

Respond(branch, handler, resp) ==
  [kind |-> "respond", branch |-> branch, handler |-> handler, response |-> resp,
   message |-> NoText, tool |-> "none"]
Throw(branch, message) ==
  [kind |-> "throw", branch |-> branch, handler |-> "none", response |-> NoResponse,
   message |-> message, tool |-> "none"]
Invoke(tool) ==
  [kind |-> "invoke", branch |-> "tools/call", handler |-> tool, response |-> NoResponse,
   message |-> NoText, tool |-> tool]

\* body.method.trim().toLowerCase() === "<name>", on the method strings of the model
trimLower(m) ==
  CASE m = "Tools/List" -> "tools/list"
    [] m = " tools/call" -> "tools/call"
    [] OTHER -> m
methodIs_trimLower(body, name) ==
  body.method.t = "string" /\ trimLower(body.method.s) = name

\* body.method === "<name>": exact string equality
methodIs(body, name) == body.method = Str(name)

\* the listing in reverse declaration order
toolsResult_reversed(tools) ==
  [kind |-> "tools", tools |-> [i \in 1..Len(tools) |-> tools[Len(tools) + 1 - i].name],
   content |-> <<>>, isError |-> "absent"]

toolsResult(tools) ==
  [kind |-> "tools", tools |-> [i \in 1..Len(tools) |-> tools[i].name],
   content |-> <<>>, isError |-> "absent"]
initializeResult == [kind |-> "initialize", tools |-> <<>>, content |-> <<>>, isError |-> "absent"]

\* the notification answered with an envelope instead of an empty 204
notificationResponse_envelope == SuccessEnvelope(Undefined, NoResult)

\* new Response(null, { status: 204, headers: getCorsHeaders() })
notificationResponse == NewResponse(FALSE, NoData, 204, getCorsHeaders)

\* src/src/index.ts: switch (name) with its validators
callCasey(params) ==
  LET name == params.name.s
      args == params.arguments
  IN CASE name \in {"getwiki", "getblog", "getgithub"} ->
            IF ~isOptionalStringArg(args)
            THEN Throw("tools/call", Text(<<"Invalid arguments">>))
            ELSE Invoke(name)
       [] name = "getmastodon" ->
            IF ~isOptionalNumberArg(args)
            THEN Throw("tools/call", Text(<<"Invalid arguments">>))
            ELSE Invoke(name)
       [] OTHER -> Throw("tools/call", Text(<<"Unknown tool: ", name>>))

routeCasey(body) ==
  IF body.kind = "badjson" THEN Throw("none", SyntaxErrorMessage)
  ELSE IF ~isMCPRequest(body) THEN Throw("none", Text(<<"Invalid MCP request">>))
  ELSE LET requestId == body.id
       IN IF methodIs(body, "tools/list")
          THEN Respond("tools/list", "none",
                       SuccessEnvelope(requestId, toolsResult(registry)))
          ELSE IF methodIs(body, "tools/call")
          THEN IF ~Truthy(body.params.name)
               THEN Throw("tools/call", Text(<<"Missing tool name">>))
               ELSE callCasey(body.params)
          ELSE IF methodIs(body, "initialize")
          THEN Respond("initialize", "none", SuccessEnvelope(requestId, initializeResult))
          ELSE IF methodIs(body, "notifications/initialized")
          THEN Respond("notifications/initialized", "none", notificationResponse)
          ELSE Throw("unknown", Text(<<"Unknown method: ", body.method.s>>))

\* src/unnamed/part_001: switch (name); the tools answer without fetching
callSample(requestId, params) ==
  LET name == params.name.s
      args == params.arguments
  IN CASE name = "greet" ->
            IF ~isGreetArgs(args)
            THEN Throw("tools/call", Text(<<"Invalid arguments for greet tool">>))
            ELSE Respond("tools/call", "greet",
                         SuccessEnvelope(requestId,
                           sampleResult(Text(<<"Hello, ", args.val["name"].s,
                                               "! Welcome to our sample MCP server running on Cloudflare Workers!">>))))
       [] name = "get_server_info" ->
            Respond("tools/call", "get_server_info",
                    SuccessEnvelope(requestId, sampleResult(Text(<<"<server info>">>))))
       [] name = "ping" ->
            Respond("tools/call", "ping",
                    SuccessEnvelope(requestId, sampleResult(Text(<<"pong">>))))
       [] OTHER -> Throw("tools/call", Text(<<"Unknown tool: ", name>>))

routeSample(body) ==
  IF body.kind = "badjson" THEN Throw("none", SyntaxErrorMessage)
  ELSE IF ~isMCPRequest(body) THEN Throw("none", Text(<<"Invalid MCP request format">>))
  ELSE LET requestId == body.id
       IN IF methodIs(body, "tools/list")
          THEN IF ~ListToolsRequestValid(body)
               THEN Throw("tools/list", Text(<<"Invalid tools/list request: ", "<issues>">>))
               ELSE Respond("tools/list", "none",
                            SuccessEnvelope(requestId, toolsResult(registry)))
          ELSE IF methodIs(body, "tools/call")
          THEN IF ~CallToolRequestValid(body)
               THEN Throw("tools/call", Text(<<"Invalid tools/call request: ", "<issues>">>))
               ELSE IF ~Truthy(body.params.name)
               THEN Throw("tools/call", Text(<<"Missing tool name in request">>))
               ELSE callSample(requestId, body.params)
          ELSE IF methodIs(body, "initialize")
          THEN Respond("initialize", "none", SuccessEnvelope(requestId, initializeResult))
          ELSE IF methodIs(body, "notifications/initialized")
          THEN Respond("notifications/initialized", "none", notificationResponse)
          ELSE Throw("unknown", Text(<<"Unknown method: ", body.method.s>>))

route(w, body) == IF w = "casey" THEN routeCasey(body) ELSE routeSample(body)

(* The catch blocks.                                                       *)

\* the catch block answering with the default status of createJsonResponse
catchCasey_defaultStatus(message) ==
  createJsonResponse(
    Data({"jsonrpc", "error"}, Undefined, NoResult, ErrorObject(-32603, message)), 200)

\* src/src/index.ts: { jsonrpc: "2.0", error: { code: -32603, message: msg } }, 500
catchCasey(message) ==
  createJsonResponse(
    Data({"jsonrpc", "error"}, Undefined, NoResult, ErrorObject(-32603, message)), 500)

\* request.clone().json() in the inner try: clone() throws a TypeError once the
\* body has been read (Fetch: the body is unusable), and then no id is recovered
recoverId(body, used) ==
  IF used \/ body.kind = "badjson" THEN Undefined
  ELSE IF isMCPRequest(body) THEN body.id
  ELSE Undefined

\* src/unnamed/part_001: ...(requestId !== undefined && { id: requestId })
catchSample(message, body, used) ==
  LET requestId == recoverId(body, used)
  IN createJsonResponse(
       Data({"jsonrpc", "error"} \cup (IF requestId # Undefined THEN {"id"} ELSE {}),
            requestId, NoResult, ErrorObject(-32603, message)), 500)

\* a catch block that lets the error escape: no Response is produced
catch_rethrows(w, message, body, used) == NoResponse

catch(w, message, body, used) ==
  IF w = "casey" THEN catchCasey(message) ELSE catchSample(message, body, used)

(* The transport checks, in the order of the code.  "pass" goes on to the  *)
(* try block.                                                              *)
transportError(code, message, status) ==
  createJsonResponse(
    Data({"error"}, Undefined, NoResult, ErrorObject(code, Text(<<message>>))), status)

\* the preflight branch placed after the path check
gate_pathFirst(w, req) ==
  IF req.pathname # "/mcp" /\ req.pathname # "/"
  THEN [pass |-> FALSE, response |-> transportError(-32000, "Use /mcp endpoint", 404)]
  ELSE IF req.httpMethod = "OPTIONS"
  THEN [pass |-> FALSE, response |-> NewResponse(FALSE, NoData, 200, getCorsHeaders)]
  ELSE IF req.httpMethod # "POST"
  THEN [pass |-> FALSE, response |-> transportError(-32000, "POST required", 405)]
  ELSE IF ~IncludesJson(req.contentType)
  THEN [pass |-> FALSE, response |-> transportError(-32700, "JSON required", 400)]
  ELSE [pass |-> TRUE, response |-> NoResponse]

\* the method check placed before the path check
gate_methodFirst(w, req) ==
  IF req.httpMethod = "OPTIONS"
  THEN [pass |-> FALSE, response |-> NewResponse(FALSE, NoData, 200, getCorsHeaders)]
  ELSE IF req.httpMethod # "POST"
  THEN [pass |-> FALSE, response |-> transportError(-32000, "POST required", 405)]
  ELSE IF req.pathname # "/mcp" /\ req.pathname # "/"
  THEN [pass |-> FALSE, response |-> transportError(-32000, "Use /mcp endpoint", 404)]
  ELSE IF ~IncludesJson(req.contentType)
  THEN [pass |-> FALSE, response |-> transportError(-32700, "JSON required", 400)]
  ELSE [pass |-> TRUE, response |-> NoResponse]

\* the Content-Type check left out
gate_anyContentType(w, req) ==
  IF req.httpMethod = "OPTIONS"
  THEN [pass |-> FALSE, response |-> NewResponse(FALSE, NoData, 200, getCorsHeaders)]
  ELSE IF req.pathname # "/mcp" /\ req.pathname # "/"
  THEN [pass |-> FALSE, response |-> transportError(-32000, "Use /mcp endpoint", 404)]
  ELSE IF req.httpMethod # "POST"
  THEN [pass |-> FALSE, response |-> transportError(-32000, "POST required", 405)]
  ELSE [pass |-> TRUE, response |-> NoResponse]

gate(w, req) ==
  IF req.httpMethod = "OPTIONS"
  THEN [pass |-> FALSE, response |-> NewResponse(FALSE, NoData, 200, getCorsHeaders)]
  ELSE IF req.pathname # "/mcp" /\ req.pathname # "/"
  THEN [pass |-> FALSE,
        response |-> transportError(-32000,
                       IF w = "casey" THEN "Use /mcp endpoint"
                       ELSE "Invalid endpoint. Use /mcp for MCP protocol requests.", 404)]
  ELSE IF req.httpMethod # "POST"
  THEN [pass |-> FALSE,
        response |-> transportError(-32000,
                       IF w = "casey" THEN "POST required"
                       ELSE "Method not allowed. Use POST for MCP requests.", 405)]
  ELSE IF ~IncludesJson(req.contentType)
  THEN [pass |-> FALSE,
        response |-> transportError(-32700,
                       IF w = "casey" THEN "JSON required"
                       ELSE "Invalid Content-Type. Expected application/json.", 400)]
  ELSE [pass |-> TRUE, response |-> NoResponse]

-----------------------------------------------------------------------------
(* The state machine of one invocation of fetch(request).                  *)

NoCall == [tool |-> "none", args |-> NoArguments]

Init ==
  /\ worker \in Workers
  /\ pc = "idle"
  /\ request = NoRequest
  /\ bodyUsed = FALSE
  /\ dispatched = "none"
  /\ handlerRun = "none"
  /\ call = NoCall
  /\ pending = {}
  /\ issued = <<>>
  /\ fetchLog = <<>>
  /\ registry = TOOLS(worker)
  /\ html = <<>>
  /\ rendered = NotRendered
  /\ again = NotRendered
  /\ response = NoResponse

\* the runtime calls fetch(request)
Receive ==
  /\ pc = "idle"
  /\ \E r \in Requests : request' = r
  /\ pc' = "transport"
  /\ UNCHANGED <<worker, bodyUsed, dispatched, handlerRun, call, pending, issued,
                 fetchLog, registry, html, rendered, again, response>>

\* the checks before the try block: preflight, path, method, content type
Transport ==
  /\ pc = "transport"
  /\ LET g == gate(worker, request)
     IN IF g.pass
        THEN pc' = "dispatch" /\ response' = response
        ELSE pc' = "done" /\ response' = g.response
  /\ UNCHANGED <<worker, request, bodyUsed, dispatched, handlerRun, call, pending,
                 issued, fetchLog, registry, html, rendered, again>>

\* await request.json(), then the routing; a tool handler runs to its first fetch
Dispatch ==
  /\ pc = "dispatch"
  /\ bodyUsed' = TRUE
  /\ LET r == route(worker, request.body)
     IN /\ dispatched' = r.branch
        /\ handlerRun' = r.handler
        /\ CASE r.kind = "respond" ->
                  /\ response' = r.response
                  /\ pc' = "done"
                  /\ UNCHANGED <<call, pending, issued>>
             [] r.kind = "throw" ->
                  /\ response' = catch(worker, r.message, request.body, TRUE)
                  /\ pc' = "done"
                  /\ UNCHANGED <<call, pending, issued>>
             [] r.kind = "invoke" ->
                  LET args == request.body.params.arguments
                      first == Needs(r.tool, args, <<>>)
                  IN /\ call' = [tool |-> r.tool, args |-> args]
                     /\ pending' = first
                     /\ issued' = Issue(args, first, <<>>)
                     /\ pc' = "tool"
                     /\ response' = response
  /\ UNCHANGED <<worker, request, fetchLog, registry, html, rendered, again>>

\* an outbound fetch settles; the handler goes on to its next await or returns
FetchSettle ==
  /\ pc = "tool"
  /\ \E t \in pending : \E o \in OutcomesOf(t) :
       LET log == Append(fetchLog, [target |-> t, outcome |-> o])
       IN /\ fetchLog' = log
          /\ IF Completed(call.tool, call.args, log)
             THEN LET h == handle(call.tool, call.args, log)
                  IN /\ response' =
                          IF h.raised
                          THEN catch(worker, h.message, request.body, bodyUsed)
                          ELSE SuccessEnvelope(request.body.id, h.result)
                     /\ pending' = {}
                     /\ issued' = issued
                     /\ pc' = "done"
             ELSE LET next == Needs(call.tool, call.args, log) \ {issued[i].target : i \in 1..Len(issued)}
                  IN /\ pending' = (pending \ {t}) \cup next
                     /\ issued' = issued \o Issue(call.args, next, log)
                     /\ pc' = "tool"
                     /\ response' = response
  /\ UNCHANGED <<worker, request, bodyUsed, dispatched, handlerRun, call, registry,
                 html, rendered, again>>

\* the response is sent; nothing of the request is kept
Deliver ==
  /\ pc = "done"
  /\ pc' = "idle"
  /\ request' = NoRequest
  /\ bodyUsed' = FALSE
  /\ dispatched' = "none"
  /\ handlerRun' = "none"
  /\ call' = NoCall
  /\ pending' = {}
  /\ issued' = <<>>
  /\ fetchLog' = <<>>
  /\ response' = NoResponse
  /\ UNCHANGED <<worker, registry, html, rendered, again>>

Next == Receive \/ Transport \/ Dispatch \/ FetchSettle \/ Deliver

Spec == Init /\ [][Next]_vars

-----------------------------------------------------------------------------
(* Vocabulary of the properties: what a request asks for, read off the     *)
(* request alone, and what a response is, read off the response alone.     *)

Answered == pc = "done"
\* the transport checks were passed: the try block was entered and the body read
Parsed == pc = "done" /\ bodyUsed

JsonRpcError ==
  /\ response.hasBody
  /\ {"jsonrpc", "error"} \subseteq response.body.members
  /\ "result" \notin response.body.members
JsonRpcSuccess ==
  /\ response.hasBody
  /\ {"jsonrpc", "result"} \subseteq response.body.members
  /\ "error" \notin response.body.members
CarriesCors == getCorsHeaders \subseteq response.headers

KnownMethods == {"tools/list", "tools/call", "initialize", "notifications/initialized"}
Malformed(b) ==
  \/ b.kind # "object"
  \/ b.method.t # "string"
  \/ b.id.t \notin {"undefined", "string", "number"}
WellFormed(b) == ~Malformed(b)
UnknownMethod(b) == WellFormed(b) /\ b.method.s \notin KnownMethods
IsToolsCall(b) == WellFormed(b) /\ b.method.s = "tools/call"
NamesTool(b) ==
  /\ IsToolsCall(b)
  /\ b.params.kind = "object"
  /\ b.params.name.t = "string"
  /\ b.params.name.s # ""
MissingToolName(b) == IsToolsCall(b) /\ ~NamesTool(b)
Registered(w) == {TOOLS(w)[i].name : i \in 1..Len(TOOLS(w))}
Descriptor(w, name) == CHOOSE d \in {TOOLS(w)[i] : i \in 1..Len(TOOLS(w))} : d.name = name
UnknownTool(w, b) == NamesTool(b) /\ b.params.name.s \notin Registered(w)
\* the bundle breaks the tool's inputSchema: it is present and no object, a
\* declared property has another primitive type, or a required one is missing
SchemaViolated(d, args) ==
  \/ args.kind = "string"
  \/ /\ args.kind = "object"
     /\ \E p \in d.properties : p[1] \in args.has /\ args.val[p[1]].t # p[2]
  \/ \E r \in d.required : ~(args.kind = "object" /\ r \in args.has)
InvalidArguments(w, b) ==
  /\ NamesTool(b)
  /\ b.params.name.s \in Registered(w)
  /\ SchemaViolated(Descriptor(w, b.params.name.s), b.params.arguments)
ProtocolError(w, b) ==
  \/ Malformed(b)
  \/ UnknownMethod(b)
  \/ MissingToolName(b)
  \/ UnknownTool(w, b)
  \/ InvalidArguments(w, b)

FetchingTools == {"getwiki", "getblog", "getgithub", "getmastodon"}
\* fetches whose non-2xx answer the handler tolerates: it falls back to the
\* posts page, to an empty repository list, to no README
OptionalTargets == {"blog:feed", "gh:repos", "gh:readme"}
SingleItemTargets == {"wiki:page", "blog:post", "gh:repo"}
SomeFetchFailed == \E i \in 1..Len(fetchLog) : ~ok(fetchLog[i].outcome)
SomeFetchRejected == \E i \in 1..Len(fetchLog) : fetchLog[i].outcome.thrown # "none"
RequiredFetchFailed ==
  \E i \in 1..Len(fetchLog) :
    \/ fetchLog[i].outcome.thrown # "none"
    \/ fetchLog[i].target \notin OptionalTargets /\ ~ok(fetchLog[i].outcome)
SingleItem404 ==
  \E i \in 1..Len(fetchLog) :
    fetchLog[i].target \in SingleItemTargets /\ fetchLog[i].outcome = Settled(404, "none")
\* a 2xx answer whose JSON the fetcher cannot parse, or cannot use (account.id)
PayloadUnusable ==
  \E i \in 1..Len(fetchLog) :
    /\ ok(fetchLog[i].outcome)
    /\ \/ fetchLog[i].outcome.payload = "badjson"
       \/ fetchLog[i].target = "masto:lookup" /\ fetchLog[i].outcome.payload = "null"

ToolLevelError ==
  /\ JsonRpcSuccess
  /\ response.body.result.kind = "tool"
  /\ response.body.result.isError = "true"
  /\ Len(response.body.result.content) = 1
  /\ response.body.result.content[1].type = "text"
  /\ TextTruthy(response.body.result.content[1].text)

(* The runtime resumes the handler whenever it can go on: the transport    *)
(* checks and the dispatch are synchronous code or an await on the request *)
(* body at hand, and every outbound fetch carries AbortSignal.timeout, so  *)
(* a pending fetch settles.  The arrival of requests is left to the        *)
(* environment.                                                            *)
FairSpec ==
  /\ Spec
  /\ WF_vars(Transport)
  /\ WF_vars(Dispatch)
  /\ WF_vars(FetchSettle)

(* extractText on its own: a caller hands it an html string and takes the  *)
(* text it returns.  The variables of the request handler stay as they     *)
(* are at start.                                                           *)
handlerVars ==
  <<worker, pc, request, bodyUsed, dispatched, handlerRun, call, pending, issued,
    fetchLog, registry, response>>

RenderInit ==
  /\ worker \in Workers
  /\ pc = "idle"
  /\ request = NoRequest
  /\ bodyUsed = FALSE
  /\ dispatched = "none"
  /\ handlerRun = "none"
  /\ call = NoCall
  /\ pending = {}
  /\ issued = <<>>
  /\ fetchLog = <<>>
  /\ registry = TOOLS(worker)
  /\ response = NoResponse
  /\ html \in Htmls
  /\ rendered = NotRendered
  /\ again = NotRendered

\* extractText(html) returns
Render ==
  /\ rendered = NotRendered
  /\ rendered' = extractText(html)
  /\ UNCHANGED <<html, again, handlerVars>>

\* the caller hands the returned text to extractText once more
RenderAgain ==
  /\ rendered # NotRendered
  /\ again = NotRendered
  /\ again' = extractText(rendered)
  /\ UNCHANGED <<html, rendered, handlerVars>>

RenderNext == Render \/ RenderAgain

RenderSpec == RenderInit /\ [][RenderNext]_vars

(* extractText on plain text: the html of the call is a text of TextAtoms. *)
(* extractText is a function of src/src/index.ts alone.                    *)
TextInit ==
  /\ worker = "casey"
  /\ pc = "idle"
  /\ request = NoRequest
  /\ bodyUsed = FALSE
  /\ dispatched = "none"
  /\ handlerRun = "none"
  /\ call = NoCall
  /\ pending = {}
  /\ issued = <<>>
  /\ fetchLog = <<>>
  /\ registry = TOOLS(worker)
  /\ response = NoResponse
  /\ html \in Texts
  /\ rendered = NotRendered
  /\ again = NotRendered

TextSpec == TextInit /\ [][RenderNext]_vars

-----------------------------------------------------------------------------
(* C1 (as stated): for every tools/call that names a registered tool and   *)
(* passes validation, any failed outbound fetch (non-2xx, network error,   *)
(* timeout) gives a successful envelope whose result has isError = true    *)
(* and one explaining text, "not found" in it after a 404 of a single-item *)
(* fetch; never an error envelope.                                         *)
C1_AnyFetchFailureIsToolError ==
  (Answered /\ handlerRun \in FetchingTools /\ SomeFetchFailed) =>
    /\ ToolLevelError
    /\ SingleItem404 => Contains(response.body.result.content[1].text, "not found")

(* C1 (amended): a rejected fetch, or a non-2xx answer of any fetch other  *)
(* than the blog feed, the repository list and the README, gives a         *)
(* successful envelope whose result has isError = true and one explaining  *)
(* text, never an error envelope; the text contains "not found" after a    *)
(* 404 of a single-item fetch when no fetch was rejected.                  *)
C1_RequiredFetchFailureIsToolError ==
  (Answered /\ handlerRun \in FetchingTools /\ RequiredFetchFailed) =>
    /\ ToolLevelError
    /\ (SingleItem404 /\ ~SomeFetchRejected) =>
         Contains(response.body.result.content[1].text, "not found")

C1_Witness ==
  /\ Answered
  /\ handlerRun = "getwiki"
  /\ fetchLog = << [target |-> "wiki:page", outcome |-> Settled(404, "none")] >>
  /\ ToolLevelError
  /\ Contains(response.body.result.content[1].text, "not found")

(* C2: a request whose envelope carries a string or number id and ends in  *)
(* a protocol error (unknown method, missing tool name, unknown tool,      *)
(* invalid arguments) gets an error envelope that echoes that id.          *)
C2_ErrorEnvelopeEchoesId ==
  (/\ Parsed
   /\ WellFormed(request.body)
   /\ request.body.id.t \in {"string", "number"}
   /\ \/ UnknownMethod(request.body)
      \/ MissingToolName(request.body)
      \/ UnknownTool(worker, request.body)
      \/ InvalidArguments(worker, request.body)) =>
    /\ JsonRpcError
    /\ "id" \in response.body.members
    /\ response.body.id = request.body.id

(* C3: a success envelope (initialize, tools/list, a tools/call that       *)
(* returned) carries the request's id, type and value unchanged, and no id *)
(* member when the request has none.                                       *)
C3_SuccessEnvelopeEchoesId ==
  (Answered /\ JsonRpcSuccess) =>
    /\ dispatched \in {"initialize", "tools/list", "tools/call"}
    /\ IF request.body.id.t = "undefined"
       THEN "id" \notin response.body.members
       ELSE /\ "id" \in response.body.members
            /\ response.body.id = request.body.id
            /\ response.body.id.t \in {"string", "number"}

C3_Witness ==
  /\ Answered
  /\ JsonRpcSuccess
  /\ dispatched = "tools/call"
  /\ request.body.id = Num(2)
  /\ response.body.id = Num(2)

(* C4 (as stated): every protocol error is answered with a 200-level       *)
(* status and an error object of code -32603.                              *)
C4_ProtocolErrorIs2xx ==
  (Parsed /\ ProtocolError(worker, request.body)) =>
    /\ JsonRpcError
    /\ response.status \in 200..299
    /\ response.body.error.code = -32603

(* C4 (amended): every protocol error is answered with status 500 and an   *)
(* error object of code -32603.                                            *)
C4_ProtocolErrorIs500 ==
  (Parsed /\ ProtocolError(worker, request.body)) =>
    /\ JsonRpcError
    /\ response.status = 500
    /\ response.body.error.code = -32603

C4_Witness ==
  /\ Parsed
  /\ UnknownTool(worker, request.body)
  /\ JsonRpcError
  /\ response.status = 500

(* C5 (as stated): a request that passes the transport checks and has      *)
(* method "notifications/initialized" gets an empty body and status 204,   *)
(* whatever else the envelope holds.                                       *)
C5_NotificationNeverAnswered ==
  (/\ Parsed
   /\ request.body.kind = "object"
   /\ request.body.method = Str("notifications/initialized")) =>
    /\ ~response.hasBody
    /\ response.status = 204

(* C5 (amended): the same, for envelopes whose id is absent, a string or a *)
(* number.                                                                 *)
C5_ValidNotificationNeverAnswered ==
  (/\ Parsed
   /\ request.body.kind = "object"
   /\ request.body.method = Str("notifications/initialized")
   /\ request.body.id.t \in {"undefined", "string", "number"}) =>
    /\ ~response.hasBody
    /\ response.status = 204

C5_Witness ==
  /\ Parsed
  /\ request.body.method = Str("notifications/initialized")
  /\ request.body.id = Num(2)
  /\ ~response.hasBody
  /\ response.status = 204

(* C6: a tools/call of greet whose name argument is missing, is no string, *)
(* or whose bundle is no object never enters the handler and is answered   *)
(* with an error envelope, not a result.                                   *)
C6_GreetRejectedBeforeHandler ==
  (/\ Parsed
   /\ worker = "sample"
   /\ NamesTool(request.body)
   /\ request.body.params.name.s = "greet"
   /\ LET args == request.body.params.arguments
      IN \/ args.kind # "object"
         \/ "name" \notin args.has
         \/ args.val["name"].t # "string") =>
    /\ handlerRun = "none"
    /\ JsonRpcError

C6_Witness ==
  /\ Parsed
  /\ worker = "sample"
  /\ NamesTool(request.body)
  /\ request.body.params.name.s = "greet"
  /\ request.body.params.arguments.kind = "object"
  /\ request.body.params.arguments.val["name"] = Num(5)
  /\ handlerRun = "none"
  /\ JsonRpcError

(* C7: a method string other than the four known ones, compared exactly,   *)
(* is answered with an error of code -32603 whose message contains it.     *)
C7_UnknownMethodNamed ==
  (Parsed /\ UnknownMethod(request.body)) =>
    /\ JsonRpcError
    /\ response.body.error.code = -32603
    /\ Contains(response.body.error.message, request.body.method.s)

C7_Witness ==
  /\ Parsed
  /\ request.body.method = Str("Tools/List")
  /\ JsonRpcError
  /\ Contains(response.body.error.message, "Tools/List")

(* C8 (as stated): every tool result has one content item of type "text"   *)
(* with a string text, and isError absent or true: true exactly when a     *)
(* fetch failed (non-2xx, rejected, or answered with an unusable payload). *)
C8_IsErrorIffFetchFailed ==
  (Answered /\ JsonRpcSuccess /\ response.body.result.kind = "tool") =>
    LET r == response.body.result
    IN /\ Len(r.content) = 1
       /\ r.content[1].type = "text"
       /\ r.content[1].text.t = "string"
       /\ r.isError \in {"absent", "true"}
       /\ r.isError = "true" <=> (SomeFetchFailed \/ PayloadUnusable)

(* C8 (amended): ... true exactly when a fetch was rejected, a fetch other *)
(* than the blog feed, the repository list and the README was answered     *)
(* non-2xx, or a 2xx payload could not be parsed or used.                  *)
C8_IsErrorIffFetcherFailed ==
  (Answered /\ JsonRpcSuccess /\ response.body.result.kind = "tool") =>
    LET r == response.body.result
    IN /\ Len(r.content) = 1
       /\ r.content[1].type = "text"
       /\ r.content[1].text.t = "string"
       /\ r.isError \in {"absent", "true"}
       /\ r.isError = "true" <=> (RequiredFetchFailed \/ PayloadUnusable)

C8_Witness ==
  /\ Answered
  /\ JsonRpcSuccess
  /\ handlerRun = "getblog"
  /\ Len(fetchLog) = 2
  /\ fetchLog[1] = [target |-> "blog:feed", outcome |-> Settled(404, "none")]
  /\ ok(fetchLog[2].outcome)
  /\ response.body.result.isError = "absent"

(* C9: every OPTIONS request is answered before the path, method,          *)
(* content-type and body checks, with the CORS headers, no body and a      *)
(* success status without content.                                         *)
C9_PreflightShortCircuits ==
  (Answered /\ request.httpMethod = "OPTIONS") =>
    /\ CarriesCors
    /\ ~response.hasBody
    /\ response.status \in 200..299
    /\ ~bodyUsed
    /\ dispatched = "none"

C9_Witness ==
  /\ Answered
  /\ request.httpMethod = "OPTIONS"
  /\ request.pathname = "/other"
  /\ request.contentType = Null
  /\ CarriesCors
  /\ ~response.hasBody

(* C10 (as stated): a request to a path other than /mcp or / gets 404 and  *)
(* code -32000, a non-POST request to /mcp or / gets 405 and code -32000;  *)
(* in both cases the body is not read and nothing is dispatched.           *)
C10_PathThenMethod ==
  Answered =>
    /\ request.pathname \notin {"/mcp", "/"} =>
         /\ response.status = 404
         /\ response.body.error.code = -32000
         /\ ~bodyUsed /\ dispatched = "none"
    /\ (request.pathname \in {"/mcp", "/"} /\ request.httpMethod # "POST") =>
         /\ response.status = 405
         /\ response.body.error.code = -32000
         /\ ~bodyUsed /\ dispatched = "none"

(* C10 (amended): the same for requests other than OPTIONS, which are      *)
(* answered as preflights before the path and method checks.               *)
C10_PathThenMethodAfterPreflight ==
  (Answered /\ request.httpMethod # "OPTIONS") =>
    /\ request.pathname \notin {"/mcp", "/"} =>
         /\ response.status = 404
         /\ response.body.error.code = -32000
         /\ ~bodyUsed /\ dispatched = "none"
    /\ (request.pathname \in {"/mcp", "/"} /\ request.httpMethod # "POST") =>
         /\ response.status = 405
         /\ response.body.error.code = -32000
         /\ ~bodyUsed /\ dispatched = "none"

C10_Witness ==
  /\ Answered
  /\ request.httpMethod = "GET"
  /\ request.pathname = "/other"
  /\ response.status = 404
  /\ ~bodyUsed


(* C11: a POST to /mcp or / whose Content-Type is absent or does not       *)
(* declare application/json is answered 400 with code -32700, and the body *)
(* is never parsed: nothing is dispatched and no tool runs.                *)
DeclaresJson(ct) == ct = Str("application/json; charset=utf-8")
C11_NonJsonContentTypeRejected ==
  (/\ Answered
   /\ request.httpMethod = "POST"
   /\ request.pathname \in {"/mcp", "/"}
   /\ ~DeclaresJson(request.contentType)) =>
    /\ response.status = 400
    /\ response.hasBody
    /\ response.body.error.code = -32700
    /\ ~bodyUsed
    /\ dispatched = "none"
    /\ handlerRun = "none"
    /\ issued = <<>>

C11_Witness ==
  /\ Answered
  /\ request.httpMethod = "POST"
  /\ request.pathname = "/mcp"
  /\ request.contentType = Str("text/plain")
  /\ NamesTool(request.body)
  /\ request.body.params.name.s = "getwiki"
  /\ response.status = 400
  /\ ~bodyUsed

(* C12: every response, on every path through the handler, carries         *)
(* Access-Control-Allow-Origin: * and the other CORS headers.              *)
C12_EveryResponseCarriesCors ==
  Answered =>
    /\ <<"Access-Control-Allow-Origin", "*">> \in response.headers
    /\ \A h \in {"Access-Control-Allow-Methods", "Access-Control-Allow-Headers",
                 "Access-Control-Max-Age"} :
         \E p \in response.headers : p[1] = h

C12_Witness ==
  /\ Answered
  /\ JsonRpcError
  /\ response.status = 500
  /\ <<"Access-Control-Allow-Origin", "*">> \in response.headers


(* C13: whatever requests were served before, tools/list returns the same  *)
(* registry: non-empty, in declaration order, names pairwise distinct; no  *)
(* request changes the registry, and nothing of a request outlives it.     *)
DeclaredNames(w) == [i \in 1..Len(TOOLS(w)) |-> TOOLS(w)[i].name]
IsToolsList(body) == WellFormed(body) /\ body.method = Str("tools/list")
DeclaredFieldMistyped(d, args) ==
  /\ args.kind = "object"
  /\ \E p \in d.properties : p[1] \in args.has /\ args.val[p[1]].t # p[2]
ValidatorAccepted == handlerRun = request.body.params.name.s
ValidatorRejected ==
  /\ handlerRun = "none"
  /\ pc = "done"
  /\ JsonRpcError
  /\ Contains(response.body.error.message, "Invalid arguments")
C14_VerdictByDeclaredFields ==
  (/\ worker = "casey"
   /\ bodyUsed
   /\ NamesTool(request.body)
   /\ request.body.params.name.s \in Registered(worker)
   /\ request.body.params.arguments.kind \in {"undefined", "object"}) =>
    LET d == Descriptor(worker, request.body.params.name.s)
        args == request.body.params.arguments
    IN /\ ValidatorAccepted <=> ~DeclaredFieldMistyped(d, args)
       /\ (pc = "done" /\ DeclaredFieldMistyped(d, args)) => ValidatorRejected


(* C15: for a numeric `limit` that the validator accepted, the limit of    *)
(* the statuses fetch lies in 1..40: the supplied value when it is within  *)
(* 1..40, 10 when the argument is absent, the nearest bound otherwise.     *)
SuppliedLimit == request.body.params.arguments.val["limit"]
LimitAbsent ==
  \/ request.body.params.arguments.kind = "undefined"
  \/ /\ request.body.params.arguments.kind = "object"
     /\ "limit" \notin request.body.params.arguments.has
ExpectedLimit ==
  IF LimitAbsent THEN 10
  ELSE IF SuppliedLimit.n < 1 THEN 1
  ELSE IF SuppliedLimit.n > 40 THEN 40
  ELSE SuppliedLimit.n
C15_LimitClamped ==
  \A i \in 1..Len(issued) :
    (/\ issued[i].target = "masto:statuses"
     /\ (LimitAbsent \/ SuppliedLimit.t = "number")) =>
      /\ issued[i].limit \in 1..40
      /\ issued[i].limit = ExpectedLimit


(* C16 (as stated): in every resource fetcher an abort or timeout of the   *)
(* outbound call yields the message "request timeout", a non-2xx status a  *)
(* "not found" or "HTTP <status>" message, and any other thrown condition  *)
(* its own message verbatim.                                               *)
ResultText == response.body.result.content[1].text
RejectedWith(kind) == \E i \in 1..Len(fetchLog) : fetchLog[i].outcome.thrown = kind
RequiredNon2xx(t) ==
  /\ ~SomeFetchRejected
  /\ t \notin OptionalTargets
  /\ \E i \in 1..Len(fetchLog) : fetchLog[i].target = t /\ ~ok(fetchLog[i].outcome)
HttpStatusText(status) == IF status = 404 THEN "HTTP 404" ELSE "HTTP 500"
ToolAnswered == pc = "done" /\ handlerRun \in FetchingTools /\ worker = "casey"
ThrownMessage(kind) ==
  IF kind = "timeout" THEN "The operation was aborted due to timeout"
  ELSE "Network connection lost"
FixedMessage(t) ==
  CASE t = "wiki:sitemap" -> "Could not fetch wiki sitemap"
    [] t = "blog:posts" -> "Could not fetch blog"
    [] t = "gh:profile" -> "Could not fetch GitHub profile"
    [] t = "masto:lookup" -> "Could not find Mastodon account"
    [] t = "masto:statuses" -> "Could not fetch Mastodon posts"
    [] OTHER -> "not found"
InToolCall == pc \in {"tool", "done"} /\ handlerRun \in FetchingTools
NoFetchRetried ==
  \A i, j \in 1..Len(issued) : i # j => issued[i].target # issued[j].target
Failed(e) == ~ok(e.outcome)
FailedRequired(e) ==
  e.outcome.thrown # "none" \/ (e.target \notin OptionalTargets /\ ~ok(e.outcome))
ResultWithoutIsError ==
  /\ JsonRpcSuccess
  /\ response.body.result.kind = "tool"
  /\ response.body.result.isError = "absent"
C17_FirstFailureEndsCall ==
  InToolCall =>
    /\ NoFetchRetried
    /\ \A j \in 1..Len(issued) : \A k \in 1..issued[j].after : ~Failed(fetchLog[k])
    /\ (pc = "done" /\ \E k \in 1..Len(fetchLog) : Failed(fetchLog[k])) =>
         ToolLevelError /\ ~ResultWithoutIsError

(* C17 (amended): no outbound fetch is retried; after a rejected fetch or  *)
(* a non-2xx answer of a required resource nothing more is fetched and the *)
(* result is an error; a result without isError is returned only when      *)
(* every failed fetch was a non-2xx answer of the blog feed, the           *)
(* repository list or the README.                                          *)
C17_RequiredFailureEndsCall ==
  InToolCall =>
    /\ NoFetchRetried
    /\ \A j \in 1..Len(issued) : \A k \in 1..issued[j].after : ~FailedRequired(fetchLog[k])
    /\ (pc = "done" /\ \E k \in 1..Len(fetchLog) : FailedRequired(fetchLog[k])) =>
         ToolLevelError
    /\ (pc = "done" /\ ResultWithoutIsError) =>
         \A k \in 1..Len(fetchLog) :
           Failed(fetchLog[k]) =>
             fetchLog[k].target \in OptionalTargets /\ fetchLog[k].outcome.thrown = "none"

C17_Witness ==
  /\ InToolCall
  /\ pc = "done"
  /\ handlerRun = "getblog"
  /\ Len(fetchLog) = 2
  /\ fetchLog[1].target = "blog:feed" /\ fetchLog[1].outcome = Settled(200, "empty")
  /\ fetchLog[2].target = "blog:posts" /\ fetchLog[2].outcome = Threw("network")
  /\ Len(issued) = 2
  /\ ToolLevelError


(* C18: in getmastodon the statuses fetch is issued only after the account *)
(* lookup completed successfully, with the account id the lookup returned; *)
(* when the lookup fails (non-2xx or thrown) no statuses fetch is issued   *)
(* and the result is a tool-level error.                                   *)
InMastodonCall == pc \in {"tool", "done"} /\ handlerRun = "getmastodon"
LookupEntries == {k \in 1..Len(fetchLog) : fetchLog[k].target = "masto:lookup"}
StatusesIssued == {j \in 1..Len(issued) : issued[j].target = "masto:statuses"}
ReturnedAccountId(k) == IF fetchLog[k].outcome.payload = "other" THEN "42" ELSE "109302436954721982"
C18_StatusesAfterLookup ==
  InMastodonCall =>
    /\ \A j \in StatusesIssued :
         \E k \in LookupEntries :
           /\ k <= issued[j].after
           /\ ok(fetchLog[k].outcome)
           /\ issued[j].account = ReturnedAccountId(k)
    /\ \A k \in LookupEntries :
         ~ok(fetchLog[k].outcome) =>
           /\ StatusesIssued = {}
           /\ pc = "done"
           /\ ToolLevelError

C18_Witness ==
  /\ InMastodonCall
  /\ LookupEntries = {1}
  /\ fetchLog[1].outcome = Settled(200, "other")
  /\ \E j \in StatusesIssued : issued[j].account = "42" /\ issued[j].after = 1


(* C19: every request, whatever its method, path, headers, body and the    *)
(* outcomes of the outbound fetches, eventually ends with exactly one HTTP *)
(* response of a defined shape: no failure escapes the fetch handler.      *)
EmptyResponse ==
  /\ ~response.hasBody
  /\ response.status \in {200, 204}
ErrorResponse ==
  /\ response.hasBody
  /\ "error" \in response.body.members
  /\ "result" \notin response.body.members
  /\ response.status \in {400, 404, 405, 500}
  /\ response.body.error.code \in {-32000, -32700, -32601, -32603}
  /\ TextTruthy(response.body.error.message)
SuccessResponse ==
  /\ JsonRpcSuccess
  /\ response.status = 200
  /\ response.body.result.kind \in {"tools", "initialize", "tool"}
DefinedShape == EmptyResponse \/ ErrorResponse \/ SuccessResponse
C19_EveryRequestAnswered ==
  /\ (pc = "transport") ~> (pc = "done")
  /\ [](pc = "done" => (response # NoResponse /\ DefinedShape /\ CarriesCors))
  /\ [](pc # "done" => response = NoResponse)
  /\ [][response # NoResponse => response' \in {response, NoResponse}]_vars

C19_Witness ==
  /\ pc = "done"
  /\ handlerRun = "getgithub"
  /\ \E k \in 1..Len(fetchLog) :
       fetchLog[k].target = "gh:profile" /\ fetchLog[k].outcome = Settled(200, "null")
  /\ ErrorResponse
  /\ JsonRpcError
  /\ response.status = 500
  /\ Contains(response.body.error.message, "Cannot read properties of null")


(* C20: for every input of the content renderer that holds a script block  *)
(* <script ...>...</script> (any letter case, white space allowed in the   *)
(* tags), no token from inside the block appears in the output.            *)
Rendered == rendered # NotRendered
ScriptTagNames == {"<script", "<SCRIPT"}
ScriptEndTagNames == {"</script", "</SCRIPT"}
\* the tag that begins at a ends at b: only white space before its ">"
TagSpans(h, a, b) ==
  /\ a < b /\ b <= Len(h) /\ h[b] = ">"
  /\ \A m \in (a + 1)..(b - 1) : h[m] = " "
\* a script block: start tag a..b, content, the first end tag c..d after it
ScriptBlock(h, a, b, c, d) ==
  /\ h[a] \in ScriptTagNames /\ TagSpans(h, a, b)
  /\ b < c /\ h[c] \in ScriptEndTagNames /\ TagSpans(h, c, d)
  /\ \A m \in (b + 1)..(c - 1) : h[m] \notin ScriptEndTagNames
InsideScript(h, i) ==
  \E a, b, c, d \in 1..Len(h) : ScriptBlock(h, a, b, c, d) /\ b < i /\ i < c
ScriptTokens(h) == {i \in 1..Len(h) : h[i] = "x"}
C20_NoScriptTokenRendered ==
  (/\ Rendered
   /\ ScriptTokens(html) # {}
   /\ \A i \in ScriptTokens(html) : InsideScript(html, i)) =>
    \A m \in 1..Len(rendered) : rendered[m] # "x"


(* C21 (as stated): extractText is idempotent on text without markup tags, *)
(* the entity strings it decodes included: extractText(extractText(x))     *)
(* equals extractText(x).                                                  *)
RenderedTwice == rendered # NotRendered /\ again # NotRendered
NoMarkupTags(h) == \A i \in 1..Len(h) : h[i] \notin TagStarts \cup CompleteTags
EntityNames == {"nbsp;", "amp;", "lt;", "gt;", "quot;", "#39;"}
NoEntities(h) == \A i \in 1..(Len(h) - 1) : ~(h[i] = "&" /\ h[i + 1] \in EntityNames)
C21_IdempotentOnTagFreeText ==
  (RenderedTwice /\ NoMarkupTags(html)) => again = rendered

(* C21 (amended): extractText is idempotent on text that holds neither a   *)
(* "<" nor one of the entity strings it decodes.                           *)
C21_IdempotentOnCleanText ==
  (RenderedTwice /\ NoMarkupTags(html) /\ NoEntities(html)) => again = rendered

C21_Witness ==
  /\ RenderedTwice
  /\ html = <<"x", "\n", "\n", "\n", " ">>
  /\ rendered = <<"x">>
  /\ again = rendered


(* C22 (as stated): for getwiki, getblog and getgithub, whenever the       *)
(* selector (path, slug, repo) is supplied as a string the handler fetches *)
(* that one item and no listing; only when it is omitted does it fetch the *)
(* listing.                                                                *)
SelectorTools == {"getwiki", "getblog", "getgithub"}
SelectorKey ==
  CASE handlerRun = "getwiki" -> "path"
    [] handlerRun = "getblog" -> "slug"
    [] OTHER -> "repo"
ItemTargets ==
  CASE handlerRun = "getwiki" -> {"wiki:page"}
    [] handlerRun = "getblog" -> {"blog:post"}
    [] OTHER -> {"gh:repo", "gh:readme"}
ListingTargets ==
  CASE handlerRun = "getwiki" -> {"wiki:sitemap"}
    [] handlerRun = "getblog" -> {"blog:feed", "blog:posts"}
    [] OTHER -> {"gh:profile", "gh:repos"}
InSelectorCall == pc \in {"tool", "done"} /\ handlerRun \in SelectorTools
SelectorSupplied ==
  /\ request.body.params.arguments.kind = "object"
  /\ SelectorKey \in request.body.params.arguments.has
  /\ request.body.params.arguments.val[SelectorKey].t = "string"
SelectorValue == request.body.params.arguments.val[SelectorKey].s
IssuedTargets == {issued[i].target : i \in 1..Len(issued)}
FetchesItem ==
  /\ IssuedTargets # {}
  /\ IssuedTargets \subseteq ItemTargets
  /\ \A i \in 1..Len(issued) : issued[i].selector = SelectorValue
FetchesListing == IssuedTargets # {} /\ IssuedTargets \subseteq ListingTargets
C22_SuppliedSelectorFetchesItem ==
  InSelectorCall =>
    /\ SelectorSupplied => FetchesItem
    /\ ~SelectorSupplied => FetchesListing

(* C22 (amended): a selector supplied as a non-empty string makes the      *)
(* handler fetch that one item and no listing; an omitted or empty         *)
(* selector makes it fetch the listing.                                    *)
C22_NonEmptySelectorFetchesItem ==
  InSelectorCall =>
    /\ (SelectorSupplied /\ SelectorValue # "") => FetchesItem
    /\ (~SelectorSupplied \/ SelectorValue = "") => FetchesListing

C22_Witness ==
  /\ InSelectorCall
  /\ handlerRun = "getgithub"
  /\ SelectorSupplied
  /\ SelectorValue = "about"
  /\ IssuedTargets = {"gh:repo", "gh:readme"}
  /\ pc = "done"


(* C23: a POST body of JSON content type that is no valid JSON, no object, *)
(* has no string `method`, or has an `id` that is neither absent, a string *)
(* nor a number, goes straight to the internal error: the response is a    *)
(* JSON-RPC error of code -32603 and no method is dispatched.              *)
NotJson(b) == b.kind = "badjson"
NotAnObject(b) == b.kind \in {"null", "string", "array"}
NoStringMethod(b) == b.kind = "object" /\ b.method.t # "string"
BadId(b) == b.kind = "object" /\ b.id.t \notin {"undefined", "string", "number"}
Undispatchable(b) == NotJson(b) \/ NotAnObject(b) \/ NoStringMethod(b) \/ BadId(b)
C23_MalformedBodyIsInternalError ==
  (bodyUsed /\ Undispatchable(request.body)) =>
    /\ pc = "done"
    /\ JsonRpcError
    /\ response.body.error.code = -32603
    /\ dispatched = "none"
    /\ handlerRun = "none"
    /\ issued = <<>>

C23_Witness ==
  /\ bodyUsed
  /\ BadId(request.body)
  /\ request.body.id = Null
  /\ request.body.method = Str("tools/call")
  /\ request.body.params.kind = "object"
  /\ request.body.params.name = Str("getwiki")
  /\ pc = "done"
  /\ response.body.error.code = -32603
  /\ dispatched = "none"


(* C24 (as stated): for getgithub, whose two fetches are launched          *)
(* together, the tool result, its isError flag and its error text          *)
(* included, is determined by the outcomes of the two fetches alone, not   *)
(* by the order in which they complete or fail.                            *)
GithubAnswered == pc = "done" /\ handlerRun = "getgithub"
GithubPair ==
  IF IssuedTargets = {"gh:repo", "gh:readme"} THEN <<"gh:repo", "gh:readme">>
  ELSE <<"gh:profile", "gh:repos">>
\* what the two fetches end with: as observed, or anything for one that the
\* handler did not wait for
PairOutcomes ==
  {f \in [{GithubPair[1], GithubPair[2]} -> OutcomesOf("gh:profile")] :
     /\ \A t \in {GithubPair[1], GithubPair[2]} : f[t] \in OutcomesOf(t)
     /\ \A i \in 1..Len(fetchLog) : f[fetchLog[i].target] = fetchLog[i].outcome}
\* what the handler observes when `first` settles before `second`
ObservedLog(f, first, second) ==
  LET one == <<[target |-> first, outcome |-> f[first]]>>
  IN IF Completed("getgithub", call.args, one) THEN one
     ELSE Append(one, [target |-> second, outcome |-> f[second]])
InOrder(f, n) ==
  IF n = 1 THEN handle("getgithub", call.args, ObservedLog(f, GithubPair[1], GithubPair[2]))
  ELSE handle("getgithub", call.args, ObservedLog(f, GithubPair[2], GithubPair[1]))
AsAnswered(h) ==
  IF h.raised THEN JsonRpcError
  ELSE JsonRpcSuccess /\ response.body.result = h.result
C24_ResultIndependentOfOrder ==
  GithubAnswered =>
    \A f \in PairOutcomes : \A n \in {1, 2} : AsAnswered(InOrder(f, n))

(* C24 (amended): the isError flag is determined by the two outcomes       *)
(* alone, and so is the whole result unless both fetches are rejected      *)
(* with different errors: then the error text is the message of the one    *)
(* that was rejected first.                                                *)
BothRejectedDifferently(f) ==
  /\ f[GithubPair[1]].thrown # "none"
  /\ f[GithubPair[2]].thrown # "none"
  /\ f[GithubPair[1]] # f[GithubPair[2]]
SameFlag(h) ==
  IF h.raised THEN JsonRpcError
  ELSE JsonRpcSuccess /\ response.body.result.isError = h.result.isError
C24_ResultIndependentUnlessBothRejected ==
  GithubAnswered =>
    \A f \in PairOutcomes : \A n \in {1, 2} :
      /\ SameFlag(InOrder(f, n))
      /\ ~BothRejectedDifferently(f) => AsAnswered(InOrder(f, n))

C24_Witness ==
  /\ GithubAnswered
  /\ Len(fetchLog) = 2
  /\ fetchLog[1] = [target |-> "gh:repos", outcome |-> Settled(404, "none")]
  /\ fetchLog[2] = [target |-> "gh:profile", outcome |-> Threw("timeout")]
  /\ ToolLevelError
  /\ AsAnswered(InOrder([t \in {"gh:profile", "gh:repos"} |->
                           IF t = "gh:profile" THEN Threw("timeout") ELSE Settled(404, "none")], 1))

====
